---- MODULE Spec2Model ----
(***************************************************************************)
(* Model of src/app/app.py: the Lambda `handler(event, context)` that      *)
(* classifies a GitLab webhook event, reads a secret from AWS Secrets      *)
(* Manager, fetches the merge request diff from GitLab, asks an Anthropic  *)
(* chat model for a review summary, formats it with mdformat and returns   *)
(* an HTTP-shaped response.                                                *)
(*                                                                         *)
(* One behaviour is one invocation.  The handler is sequential; every      *)
(* action is one stretch of the handler between two external interactions, *)
(* and the results of the external services are chosen by the environment. *)
(* An exception that no `except` clause of the handler catches ends the    *)
(* invocation in pc = "fault" without a response.                          *)
(***************************************************************************)
EXTENDS Integers, Sequences, FiniteSets, TLC

VARIABLES
    event,              \* the inbound event (argument of handler)
    pc,                 \* position of the handler
    now,                \* the wall clock read by datetime.now()
    state,              \* local `state`
    project_id,         \* local `project_id`
    merge_request_iid,  \* local `merge_request_iid`
    store_result,       \* what get_secret_value did: raised, or the dict it returned
    secret_value,       \* local `secret_value`
    gl,                 \* private_token of the Gitlab client `gl`
    llm,                \* api_key of the ChatAnthropic client `llm`
    merge_request_diff, \* local `merge_request_diff`
    summary,            \* response["summary"].content
    responses,          \* the values returned by handler (at most one)
    fault,              \* the exception that left handler unhandled
    exc_detail,         \* the text carried by the last exception raised
    trace               \* the stages started / completed, in order

vars == <<event, pc, now, state, project_id, merge_request_iid, store_result,
          secret_value, gl, llm, merge_request_diff, summary, responses, fault,
          exc_detail, trace>>

----------------------------------------------------------------------------
(* Python values *)

\* a key that is not in a dict
Absent == "<absent>"
\* Python None / JSON null
None == "<None>"

\* dict.get(key): the value, or None when the key is missing
DictGet(v) == IF v = Absent THEN None ELSE v

\* the default `{}` of event.get("object_attributes", {})
EmptyDict ==
    [shape |-> "mapping", state |-> Absent, target_project_id |-> Absent,
     iid |-> Absent]

\* event.get("object_attributes", {}): the default only replaces a missing key
GetObjectAttributes(ev) ==
    IF ev.object_attributes.shape = "absent" THEN EmptyDict
    ELSE ev.object_attributes

\* only a dict has a .get method; None and scalars raise AttributeError
HasGet(oa) == oa.shape = "mapping"

----------------------------------------------------------------------------
(* Inbound events *)

EventTypes == {Absent, None, "merge_request", "push"}
ObjectKinds == {Absent, None, "merge_request", "push"}
States == {Absent, None, "opened", "closed"}
ProjectIds == {Absent, "42"}
Iids == {Absent, "7"}

ObjectAttributes ==
    [shape : {"mapping"}, state : States, target_project_id : ProjectIds,
     iid : Iids]
    \cup [shape : {"absent", "null", "scalar"}, state : {Absent},
          target_project_id : {Absent}, iid : {Absent}]

\* the httpMethod member of an API-Gateway style event; handler never reads it
HttpMethods == {Absent, "GET", "POST"}

Events ==
    [event_type : EventTypes, object_kind : ObjectKinds,
     object_attributes : ObjectAttributes, httpMethod : HttpMethods]

----------------------------------------------------------------------------
(* Responses *)

\* datetime.now().isoformat()
isoformat(t) == [format |-> "ISO-8601", instant |-> t]

\* json.dumps of a dict: a JSON object with the dict's members
json_dumps(d) == [json |-> "object", members |-> d]

\* variant: every response also carries Allow: POST
JsonHeaders_allow == [ContentType |-> "application/json", Allow |-> "POST"]

JsonHeaders == [ContentType |-> "application/json"]

IgnoredEventResponse(et, ok, t) ==
    [statusCode |-> 200,
     headers |-> JsonHeaders,
     body |-> json_dumps([message |-> "Event ignored - not a merge request event",
                          event_type |-> et,
                          object_kind |-> ok,
                          timestamp |-> isoformat(t)])]

IgnoredStateResponse(st, t) ==
    [statusCode |-> 200,
     headers |-> JsonHeaders,
     body |-> json_dumps([message |-> "Event ignored - merge request not in opened state",
                          state |-> st,
                          timestamp |-> isoformat(t)])]

----------------------------------------------------------------------------
(* Control *)

Return(r) ==
    /\ responses' = Append(responses, r)
    /\ pc' = "done"
    /\ fault' = fault

Raise(e) ==
    /\ fault' = e
    /\ pc' = "fault"
    /\ responses' = responses

Goto(l) ==
    /\ pc' = l
    /\ responses' = responses
    /\ fault' = fault

Log(entries) == trace' = trace \o entries

----------------------------------------------------------------------------
(* Event classification, lines 35-80 *)

\* variant: the two comparisons joined by `and`
IsMergeRequestEvent_conj(et, ok) == ~(et # "merge_request" /\ ok # "merge_request")

IsMergeRequestEvent(et, ok) == ~(et # "merge_request" \/ ok # "merge_request")

\* variant: the state test left out
IsOpened_any(st) == TRUE

IsOpened(st) == ~(st # "opened")

Classify ==
    /\ pc = "classify"
    /\ now' = now + 1
    /\ LET et == DictGet(event.event_type)
           ok == DictGet(event.object_kind)
           oa == GetObjectAttributes(event)
       IN  IF ~IsMergeRequestEvent(et, ok)
           THEN /\ Return(IgnoredEventResponse(et, ok, now'))
                /\ Log(<< <<"classify", "ignored">> >>)
                /\ UNCHANGED <<state, project_id, merge_request_iid>>
           ELSE IF ~HasGet(oa)
           THEN /\ Raise("AttributeError")
                /\ Log(<< <<"classify", "fail">> >>)
                /\ UNCHANGED <<state, project_id, merge_request_iid>>
           ELSE IF ~IsOpened(DictGet(oa.state))
           THEN /\ Return(IgnoredStateResponse(DictGet(oa.state), now'))
                /\ Log(<< <<"classify", "ignored">> >>)
                /\ state' = DictGet(oa.state)
                /\ UNCHANGED <<project_id, merge_request_iid>>
           ELSE /\ Goto("get_secret")
                /\ Log(<< <<"classify", "ok">> >>)
                /\ state' = DictGet(oa.state)
                /\ project_id' = DictGet(oa.target_project_id)
                /\ merge_request_iid' = DictGet(oa.iid)
    /\ UNCHANGED <<event, store_result, secret_value, gl, llm,
                   merge_request_diff, summary, exc_detail>>

----------------------------------------------------------------------------
(* Credential retrieval, lines 82-133 *)

\* the str / dict / int values a secret can decode to; a dict is kept as its
\* two credential members
PyStr == [type |-> "str", gitlab_private_token |-> Absent,
          anthropic_api_key |-> Absent]
PyInt == [type |-> "int", gitlab_private_token |-> Absent,
          anthropic_api_key |-> Absent]
PyDict(g, a) == [type |-> "dict", gitlab_private_token |-> g,
                 anthropic_api_key |-> a]

\* secret payload texts
TextBoth == "{\"gitlab_private_token\": \"glpat-1\", \"anthropic_api_key\": \"sk-ant-1\"}"
TextNoGitlab == "{\"anthropic_api_key\": \"sk-ant-1\"}"
TextNoAnthropic == "{\"gitlab_private_token\": \"glpat-1\"}"
TextEmptyValues == "{\"gitlab_private_token\": \"\", \"anthropic_api_key\": \"\"}"
TextSpecKeys == "{\"source_control_token\": \"glpat-1\", \"model_api_key\": \"sk-ant-1\"}"
TextEmptyObject == "{}"
TextNumber == "123"
TextNotJson == "glpat-1:sk-ant-1"
TextTruncated == "{\"gitlab_private_token\": "

SecretTexts ==
    {TextBoth, TextNoGitlab, TextNoAnthropic, TextEmptyValues, TextSpecKeys,
     TextEmptyObject, TextNumber, TextNotJson, TextTruncated}

Ok(v) == [exc |-> "none", value |-> v]
Err(e) == [exc |-> e, value |-> [type |-> "unset", gitlab_private_token |-> Absent,
                                  anthropic_api_key |-> Absent]]

\* json.loads on a secret payload text
json_loads(text) ==
    CASE text = TextBoth -> Ok(PyDict("glpat-1", "sk-ant-1"))
      [] text = TextNoGitlab -> Ok(PyDict(Absent, "sk-ant-1"))
      [] text = TextNoAnthropic -> Ok(PyDict("glpat-1", Absent))
      [] text = TextEmptyValues -> Ok(PyDict("", ""))
      [] text = TextSpecKeys -> Ok(PyDict(Absent, Absent))
      [] text = TextEmptyObject -> Ok(PyDict(Absent, Absent))
      [] text = TextNumber -> Ok(PyInt)
      [] OTHER -> Err("JSONDecodeError")

\* what get_secret_value returns: a dict with SecretString, or with SecretBinary
\* (a base64 blob: b64ok = its padding is correct, ascii = its bytes are
\* ASCII, text = the decoded text), or with neither
StoreRaised(e) == [kind |-> e, text |-> "", b64ok |-> TRUE, ascii |-> TRUE]

StoreResponses ==
    [kind : {"SecretString"}, text : SecretTexts, b64ok : {TRUE}, ascii : {TRUE}]
    \cup [kind : {"SecretBinary"}, text : SecretTexts, b64ok : {TRUE}, ascii : {TRUE}]
    \cup [kind : {"SecretBinary"}, text : {TextBoth}, b64ok : BOOLEAN, ascii : BOOLEAN]
    \cup [kind : {"Neither"}, text : {TextBoth}, b64ok : {TRUE}, ascii : {TRUE}]

\* lines 88-92: the body of the try block after get_secret_value returned
DecodeSecret(resp) ==
    IF resp.kind = "SecretString" THEN json_loads(resp.text)
    ELSE IF resp.kind # "SecretBinary" THEN Err("KeyError")
    ELSE IF ~resp.b64ok THEN Err("binascii.Error")
    ELSE IF ~resp.ascii THEN Err("UnicodeDecodeError")
    ELSE Ok(PyStr)

FailureResponse(status, error, message, t) ==
    [statusCode |-> status,
     headers |-> JsonHeaders,
     body |-> json_dumps([error |-> error,
                          message |-> message,
                          timestamp |-> isoformat(t)])]

\* variant: the catch-all clause placed first
SecretFailureResponse_generic(exc, t) ==
    FailureResponse(500, "Internal Server Error", "An unexpected error occurred", t)

\* variant: no catch-all clause, the parse clause catches every other exception
SecretFailureResponse_two(exc, t) ==
    IF exc = "ClientError"
    THEN FailureResponse(500, "Internal Server Error", "Failed to retrieve secret", t)
    ELSE FailureResponse(500, "Internal Server Error", "Failed to parse secret", t)

\* lines 95-133: the except clauses, tried in order
SecretFailureResponse(exc, t) ==
    IF exc = "ClientError"
    THEN FailureResponse(500, "Internal Server Error", "Failed to retrieve secret", t)
    ELSE IF exc = "JSONDecodeError"
    THEN FailureResponse(500, "Internal Server Error", "Failed to parse secret", t)
    ELSE FailureResponse(500, "Internal Server Error", "An unexpected error occurred", t)

\* exceptions get_secret_value raises, with the text they carry
StoreClientErrors == {"AccessDeniedException", "ResourceNotFoundException"}
StoreOtherErrors == {"EndpointConnectionError"}

\* variant: an except clause that does not return its failure response, so
\* the handler ends in a generic success body
AfterSecret_swallow(result, exc, value, detail) ==
    /\ store_result' = result
    /\ exc_detail' = detail
    /\ IF exc = "none"
       THEN /\ Goto("make_gitlab")
            /\ secret_value' = value
            /\ Log(<< <<"secret", "start">>, <<"secret", "ok">> >>)
       ELSE /\ Return([statusCode |-> 200,
                       headers |-> JsonHeaders,
                       body |-> json_dumps([message |-> "Event received successfully",
                                            method |-> "POST",
                                            timestamp |-> isoformat(now')])])
            /\ secret_value' = secret_value
            /\ Log(<< <<"secret", "start">>, <<"secret", "fail">> >>)

\* the handler after the try block: continue, or return from an except clause
AfterSecret(result, exc, value, detail) ==
    /\ store_result' = result
    /\ exc_detail' = detail
    /\ IF exc = "none"
       THEN /\ Goto("make_gitlab")
            /\ secret_value' = value
            /\ Log(<< <<"secret", "start">>, <<"secret", "ok">> >>)
       ELSE /\ Return(SecretFailureResponse(exc, now'))
            /\ secret_value' = secret_value
            /\ Log(<< <<"secret", "start">>, <<"secret", "fail">> >>)

GetSecret ==
    /\ pc = "get_secret"
    /\ now' = now + 1
    /\ \/ \E d \in StoreClientErrors :
            AfterSecret(StoreRaised("ClientError"), "ClientError", secret_value, d)
       \/ \E d \in StoreOtherErrors :
            AfterSecret(StoreRaised("BotoCoreError"), "BotoCoreError", secret_value, d)
       \/ \E resp \in StoreResponses :
            LET r == DecodeSecret(resp)
            IN  AfterSecret(resp, r.exc, r.value,
                            IF r.exc = "none" THEN "none" ELSE resp.text)
    /\ UNCHANGED <<event, state, project_id, merge_request_iid, gl, llm,
                   merge_request_diff, summary>>

----------------------------------------------------------------------------
(* Diff retrieval, lines 135-172 *)

\* v[key] on a Python value: a dict member, KeyError when the dict lacks the
\* key, TypeError when v is a str or an int
Subscript(v, key) ==
    IF v.type # "dict" THEN Err("TypeError")
    ELSE IF v[key] = Absent THEN Err("KeyError")
    ELSE Ok(v[key])

\* lines 136-139, outside any try block
MakeGitlab ==
    /\ pc = "make_gitlab"
    /\ now' = now + 1
    /\ LET tok == Subscript(secret_value, "gitlab_private_token")
       IN  IF tok.exc # "none"
           THEN /\ Raise(tok.exc)
                /\ Log(<< <<"gitlab_client", "fail">> >>)
                /\ exc_detail' = "gitlab_private_token"
                /\ gl' = gl
           ELSE /\ Goto("fetch_diff")
                /\ Log(<< <<"gitlab_client", "ok">> >>)
                /\ exc_detail' = exc_detail
                /\ gl' = tok.value
    /\ UNCHANGED <<event, state, project_id, merge_request_iid, store_result,
                   secret_value, llm, merge_request_diff, summary>>

\* unified diffs the host can return
Diffs == {"", "diff --git a/app.py b/app.py"}

\* exceptions gl.http_get raises, with the text they carry
DiffErrors ==
    {"ConnectionError", "GitlabAuthenticationError: 401", "GitlabHttpError: 404"}

\* variant: the body built without its timestamp member
DiffFailureResponse_untimed(t) ==
    [statusCode |-> 502,
     headers |-> JsonHeaders,
     body |-> json_dumps([error |-> "Failed to contact GitLab API",
                          message |-> "Failed to retrieve merge request diff"])]

DiffFailureResponse(t) ==
    [statusCode |-> 502,
     headers |-> JsonHeaders,
     body |-> json_dumps([error |-> "Failed to contact GitLab API",
                          message |-> "Failed to retrieve merge request diff",
                          timestamp |-> isoformat(t)])]

\* what http_get returns when the body is JSON: a parsed value without .text
ParsedJson == "<parsed json>"

\* variant: the response message carries the text of the exception
AfterDiffFailure_leak(d, got) ==
    /\ Return(FailureResponse(502, "Failed to contact GitLab API", d, now'))
    /\ Log(<< <<"diff", "start">>, <<"diff", "fail">> >>)
    /\ exc_detail' = d
    /\ merge_request_diff' = got

\* variant: the except clause logs and does not return
AfterDiffFailure_fallthrough(d, got) ==
    /\ Goto("make_llm")
    /\ Log(<< <<"diff", "start">>, <<"diff", "fail">> >>)
    /\ exc_detail' = d
    /\ merge_request_diff' = got

\* lines 154-166: the except clause of the diff retrieval; `got` is what
\* merge_request_diff holds when the exception is raised
AfterDiffFailure(d, got) ==
    /\ Return(DiffFailureResponse(now'))
    /\ Log(<< <<"diff", "start">>, <<"diff", "fail">> >>)
    /\ exc_detail' = d
    /\ merge_request_diff' = got

\* lines 147-166: http_get raises, or returns a parsed JSON body that has no
\* .text (AttributeError inside the try), or returns a response with text
FetchDiff ==
    /\ pc = "fetch_diff"
    /\ now' = now + 1
    /\ \/ \E d \in DiffErrors : AfterDiffFailure(d, merge_request_diff)
       \/ AfterDiffFailure("AttributeError: text", ParsedJson)
       \/ \E d \in Diffs :
            /\ Goto("make_llm")
            /\ Log(<< <<"diff", "start">>, <<"diff", "ok">> >>)
            /\ exc_detail' = exc_detail
            /\ merge_request_diff' = d
    /\ UNCHANGED <<event, state, project_id, merge_request_iid, store_result,
                   secret_value, gl, llm, summary>>

----------------------------------------------------------------------------
(* Review request, lines 174-226 *)

\* lines 175-177, outside any try block
MakeLlm ==
    /\ pc = "make_llm"
    /\ now' = now + 1
    /\ LET key == Subscript(secret_value, "anthropic_api_key")
       IN  IF key.exc # "none"
           THEN /\ Raise(key.exc)
                /\ Log(<< <<"llm_client", "fail">> >>)
                /\ exc_detail' = "anthropic_api_key"
                /\ llm' = llm
           ELSE /\ Goto("invoke")
                /\ Log(<< <<"llm_client", "ok">> >>)
                /\ exc_detail' = exc_detail
                /\ llm' = key.value
    /\ UNCHANGED <<event, state, project_id, merge_request_iid, store_result,
                   secret_value, gl, merge_request_diff, summary>>

\* texts the summary channel can carry
RawTexts ==
    {"No issues found.", "* item", "1. a\n1. b", "Title\n=====", "# Title\n"}

\* exceptions chain.invoke raises, with the text they carry
CompletionErrors ==
    {"AuthenticationError: invalid x-api-key", "RateLimitError", "APIConnectionError"}

\* lines 217-226, outside any try block
InvokeChain ==
    /\ pc = "invoke"
    /\ now' = now + 1
    /\ \/ \E d \in CompletionErrors :
            /\ Raise("AnthropicError")
            /\ Log(<< <<"completion", "start">>, <<"completion", "fail">> >>)
            /\ exc_detail' = d
            /\ summary' = summary
       \/ \E txt \in RawTexts :
            /\ Goto("format")
            /\ Log(<< <<"completion", "start">>, <<"completion", "ok">> >>)
            /\ exc_detail' = exc_detail
            /\ summary' = txt
    /\ UNCHANGED <<event, state, project_id, merge_request_iid, store_result,
                   secret_value, gl, llm, merge_request_diff>>

----------------------------------------------------------------------------
(* Output formatting and the success response, lines 228-257 *)

\* mdformat.text(..., options={"number": True, "wrap": 120}, extensions={"tables"})
\* on the texts of RawTexts: bullets become "-", ordered lists are numbered
\* consecutively, setext headings become ATX, and the document ends with
\* exactly one newline
mdformat_text(raw) ==
    CASE raw = "No issues found." -> "No issues found.\n"
      [] raw = "* item" -> "- item\n"
      [] raw = "1. a\n1. b" -> "1. a\n2. b\n"
      [] raw = "Title\n=====" -> "# Title\n"
      [] raw = "# Title\n" -> "# Title\n"

SuccessResponse(data, t) ==
    [statusCode |-> 200,
     headers |-> JsonHeaders,
     body |-> json_dumps([message |-> "Event received successfully",
                          method |-> "POST",
                          data |-> data,
                          timestamp |-> isoformat(t)])]

\* variant: the response carries output_content instead of formatted_content
FormatAndReturn_raw ==
    /\ pc = "format"
    /\ now' = now + 1
    /\ Return(SuccessResponse(summary, now'))
    /\ Log(<< <<"format", "start">>, <<"format", "ok">> >>)
    /\ UNCHANGED <<event, state, project_id, merge_request_iid, store_result,
                   secret_value, gl, llm, merge_request_diff, summary, exc_detail>>

FormatAndReturn ==
    /\ pc = "format"
    /\ now' = now + 1
    /\ LET output_content == summary
           formatted_content == mdformat_text(output_content)
       IN  Return(SuccessResponse(formatted_content, now'))
    /\ Log(<< <<"format", "start">>, <<"format", "ok">> >>)
    /\ UNCHANGED <<event, state, project_id, merge_request_iid, store_result,
                   secret_value, gl, llm, merge_request_diff, summary, exc_detail>>

----------------------------------------------------------------------------

NoValue == [type |-> "unset", gitlab_private_token |-> Absent,
            anthropic_api_key |-> Absent]

Init ==
    /\ event \in Events
    /\ pc = "classify"
    /\ now = 0
    /\ state = None
    /\ project_id = None
    /\ merge_request_iid = None
    /\ store_result = StoreRaised("none")
    /\ secret_value = NoValue
    /\ gl = None
    /\ llm = None
    /\ merge_request_diff = None
    /\ summary = None
    /\ responses = << >>
    /\ fault = "none"
    /\ exc_detail = "none"
    /\ trace = << >>

Next ==
    \/ Classify
    \/ GetSecret
    \/ MakeGitlab
    \/ FetchDiff
    \/ MakeLlm
    \/ InvokeChain
    \/ FormatAndReturn

Spec == Init /\ [][Next]_vars

----------------------------------------------------------------------------
(* Properties *)

Terminated == pc \in {"done", "fault"}

\* handler returned a value
Returned == pc = "done" /\ Len(responses) = 1

Happened(e) == \E i \in DOMAIN trace : trace[i] = e

\* stage `s` was started
Started(s) == Happened(<<s, "start">>)

\* the first position of entry e in the trace (0 when it is not there)
Position(e) ==
    IF Happened(e) THEN CHOOSE i \in DOMAIN trace :
                            trace[i] = e /\ \A j \in 1..(i - 1) : trace[j] # e
    ELSE 0

IgnoredMessages ==
    {"Event ignored - not a merge request event",
     "Event ignored - merge request not in opened state"}

NotMergeRequest(ev) ==
    ev.event_type # "merge_request" \/ ev.object_kind # "merge_request"

\* the event does not carry object_attributes.state = "opened"
NotOpened(ev) ==
    ~(ev.object_attributes.shape = "mapping" /\ ev.object_attributes.state = "opened")

\* C1: an event whose event_type or object_kind is not "merge_request"
\* (absent included, whatever object_attributes holds) is answered with
\* status 200, the message "Event ignored - not a merge request event" and
\* the event's event_type and object_kind echoed (null when absent).
C1_NotMergeRequestIgnored ==
    (NotMergeRequest(event) /\ pc # "classify") =>
        /\ Returned
        /\ responses[1].statusCode = 200
        /\ responses[1].body.members.message = "Event ignored - not a merge request event"
        /\ responses[1].body.members.event_type = DictGet(event.event_type)
        /\ responses[1].body.members.object_kind = DictGet(event.object_kind)

\* a GET-style event without event_type and object_kind, object_attributes null
C1_Witness ==
    /\ Returned
    /\ event.event_type = Absent
    /\ event.object_kind = Absent
    /\ event.object_attributes.shape = "null"
    /\ responses[1].body.members.message = "Event ignored - not a merge request event"

\* C2: a merge_request/merge_request event whose object_attributes.state is
\* not "opened" (absent included) is answered with status 200, the message
\* "Event ignored - merge request not in opened state" and the state echoed.
C2_NotOpenedIgnored ==
    (~NotMergeRequest(event) /\ NotOpened(event) /\ pc # "classify") =>
        /\ Returned
        /\ responses[1].statusCode = 200
        /\ responses[1].body.members.message
               = "Event ignored - merge request not in opened state"
        /\ responses[1].body.members.state
               = DictGet(GetObjectAttributes(event).state)

\* an event is malformed when a recognised key is missing, or
\* object_attributes is present and is null or not a mapping
Malformed(ev) ==
    \/ ev.event_type = Absent
    \/ ev.object_kind = Absent
    \/ ev.object_attributes.shape # "mapping"
    \/ ev.object_attributes.state = Absent

\* C3: a malformed event ends in one of the two Ignored responses (status
\* 200), never in an unhandled fault.
C3_MalformedIgnored ==
    (Malformed(event) /\ pc # "classify") =>
        /\ Returned
        /\ fault = "none"
        /\ responses[1].statusCode = 200
        /\ responses[1].body.members.message \in IgnoredMessages

\* C4: when get_secret_value raises ClientError the invocation returns
\* status 500, error "Internal Server Error", message "Failed to retrieve
\* secret", and neither GitLab nor the completion service is contacted.
C4_StoreFailure ==
    (store_result.kind = "ClientError") =>
        /\ Returned
        /\ responses[1].statusCode = 500
        /\ responses[1].body.members.error = "Internal Server Error"
        /\ responses[1].body.members.message = "Failed to retrieve secret"
        /\ ~Started("diff")
        /\ ~Started("completion")
        /\ gl = None /\ llm = None

C4_Witness ==
    /\ store_result.kind = "ClientError"
    /\ Returned
    /\ exc_detail = "AccessDeniedException"
    /\ trace = << <<"classify", "ok">>, <<"secret", "start">>, <<"secret", "fail">> >>

\* the store delivered a payload (string, or binary that decodes to ASCII
\* text) and the payload text is not JSON
PayloadNotJson ==
    /\ store_result.kind \in {"SecretString", "SecretBinary"}
    /\ store_result.b64ok /\ store_result.ascii
    /\ json_loads(store_result.text).exc = "JSONDecodeError"

\* C5: when the secret payload, string or binary, is not valid JSON the
\* invocation ends with status 500 and message "Failed to parse secret".
C5_ParseFailure ==
    (PayloadNotJson /\ Terminated) =>
        /\ Returned
        /\ responses[1].statusCode = 500
        /\ responses[1].body.members.message = "Failed to parse secret"

\* the diff stage failed: the client could not be built from the bundle, or
\* the request or reading its text failed
DiffStageFailed ==
    Happened(<<"gitlab_client", "fail">>) \/ Happened(<<"diff", "fail">>)

\* C6: after a successful credential retrieval, any failure of the diff
\* stage (building the client included) ends the invocation with status 502
\* and the completion service is never invoked.
C6_DiffFailure ==
    (Happened(<<"secret", "ok">>) /\ DiffStageFailed /\ Terminated) =>
        /\ Returned
        /\ responses[1].statusCode = 502
        /\ ~Started("completion")

\* C7: a failure of chain.invoke is caught: the invocation ends by returning
\* a failure response, not with an unhandled fault.
C7_CompletionFailureCaught ==
    (Happened(<<"completion", "fail">>) /\ Terminated) =>
        /\ Returned
        /\ fault = "none"
        /\ responses[1].statusCode >= 400

\* the secret store, the source-control host and the completion service were
\* each called and each succeeded
AllServicesSucceeded ==
    /\ Happened(<<"secret", "ok">>)
    /\ Happened(<<"diff", "ok">>)
    /\ Happened(<<"completion", "ok">>)

\* C8: when the three services succeed the invocation ends with status 200,
\* message "Event received successfully", method "POST" and data = the
\* formatter applied to the text of the summary channel.
C8_Success ==
    (AllServicesSucceeded /\ pc # "format") =>
        /\ Returned
        /\ responses[1].statusCode = 200
        /\ responses[1].body.members.message = "Event received successfully"
        /\ responses[1].body.members.method = "POST"
        /\ responses[1].body.members.data = mdformat_text(summary)

\* the summary "* item" comes back as "- item\n"
C8_Witness ==
    /\ Returned
    /\ AllServicesSucceeded
    /\ summary = "* item"
    /\ responses[1].body.members.data = "- item\n"

\* C9: every response has the header Content-Type: application/json and a
\* JSON-object body with a timestamp, read from the clock when the response
\* is built (after the request was received at time 0).
C9_ResponseShape ==
    \A i \in DOMAIN responses :
        /\ responses[i].headers.ContentType = "application/json"
        /\ responses[i].body.json = "object"
        /\ "timestamp" \in DOMAIN responses[i].body.members
        /\ responses[i].body.members.timestamp = isoformat(now)
        /\ now > 0

\* a 502 response built at the fourth step of the handler
C9_Witness ==
    /\ Returned
    /\ responses[1].statusCode = 502
    /\ responses[1].body.members.timestamp.instant = 4

\* stage `later` started only after stage `earlier` completed successfully
After(earlier, later) ==
    Started(later) =>
        /\ Happened(<<earlier, "ok">>)
        /\ Position(<<earlier, "ok">>) < Position(<<later, "start">>)

\* C10: classification completes before the secret store is called, the
\* store call before the diff fetch, the diff fetch before the completion
\* call, and the completion call before formatting; a stage starts only
\* after the one before it completed successfully.
C10_StageOrder ==
    /\ After("classify", "secret")
    /\ After("secret", "diff")
    /\ After("diff", "completion")
    /\ After("completion", "format")
    /\ pc # "classify" => trace[1][1] = "classify"

C10_Witness ==
    /\ Returned
    /\ Started("format")
    /\ Position(<<"classify", "ok">>) < Position(<<"secret", "start">>)
    /\ Position(<<"secret", "ok">>) < Position(<<"diff", "start">>)
    /\ Position(<<"diff", "ok">>) < Position(<<"completion", "start">>)
    /\ Position(<<"completion", "ok">>) < Position(<<"format", "start">>)

\* how many times entry e is in the trace
Count(e) == Cardinality({i \in DOMAIN trace : trace[i] = e})

Services == {"secret", "diff", "completion"}

\* an external call failed
SomeCallFailed == \E s \in Services : Happened(<<s, "fail">>)

\* C11: each external service is called at most once, and after a failed
\* external call no further external call is made and the invocation ends
\* with a failure response.
C11_NoRetry ==
    /\ \A s \in Services : Count(<<s, "start">>) <= 1
    /\ SomeCallFailed =>
          /\ trace[Len(trace)][2] = "fail"
          /\ Terminated
          /\ Returned
          /\ responses[1].statusCode >= 500

\* C12: an invocation that has ended has returned exactly one response with
\* a status code and a JSON body, whatever the event and the services did.
C12_OneOutcome ==
    Terminated =>
        /\ Len(responses) = 1
        /\ responses[1].statusCode \in 100..599
        /\ responses[1].body.json = "object"

\* the payload decodes to a JSON object that lacks a credential key, or has
\* an empty one
BundleIncomplete ==
    /\ store_result.kind \in {"SecretString", "SecretBinary"}
    /\ store_result.b64ok /\ store_result.ascii
    /\ LET v == json_loads(store_result.text)
       IN  /\ v.exc = "none"
           /\ v.value.type = "dict"
           /\ \/ v.value.gitlab_private_token \in {Absent, ""}
              \/ v.value.anthropic_api_key \in {Absent, ""}

\* C13: a bundle without the GitLab token or the Anthropic key (or with an
\* empty one) is a credential failure: the invocation ends with status 500
\* before any credential is used.
C13_IncompleteBundleRejected ==
    (BundleIncomplete /\ Terminated) =>
        /\ Returned
        /\ responses[1].statusCode = 500
        /\ gl = None /\ llm = None
        /\ ~Started("diff") /\ ~Started("completion")

\* C14: a binary payload whose decoded text is JSON with both keys gives the
\* bundle the same text gives as a string payload, and the invocation goes
\* on to the diff fetch.
C14_BinaryEqualsString ==
    (/\ store_result.kind = "SecretBinary"
     /\ store_result.b64ok /\ store_result.ascii
     /\ store_result.text = TextBoth
     /\ pc # "get_secret") =>
        /\ secret_value = json_loads(store_result.text).value
        /\ Terminated => Started("diff")

\* C15 as stated: a request whose HTTP method is not POST is answered with
\* status 405, a body with error, message and timestamp, and the headers
\* Content-Type: application/json and Allow: POST.
C15_MethodRejected ==
    (event.httpMethod = "GET" /\ Terminated) =>
        /\ Returned
        /\ responses[1].statusCode = 405
        /\ {"error", "message", "timestamp"} \subseteq DOMAIN responses[1].body.members
        /\ responses[1].headers.ContentType = "application/json"
        /\ "Allow" \in DOMAIN responses[1].headers
        /\ responses[1].headers.Allow = "POST"

\* C15 as amended: handler does not read the HTTP method.  A response to an
\* event with httpMethod GET never has status 405 nor an Allow header, and
\* when the event has no merge_request event_type/object_kind (the GET event
\* of test.py) it is the 200 "Event ignored - not a merge request event"
\* response.
C15_MethodNotInspected ==
    (event.httpMethod = "GET" /\ Returned) =>
        /\ responses[1].statusCode # 405
        /\ DOMAIN responses[1].headers = {"ContentType"}
        /\ NotMergeRequest(event) =>
              /\ responses[1].statusCode = 200
              /\ responses[1].body.members.message
                     = "Event ignored - not a merge request event"

\* the GET event of test.py: httpMethod GET, no event_type, no object_kind
C15_Witness ==
    /\ Returned
    /\ event.httpMethod = "GET"
    /\ event.event_type = Absent /\ event.object_kind = Absent
    /\ event.object_attributes.shape = "absent"
    /\ responses[1].statusCode = 200

\* C16: when the event is not an opened merge request event, none of the
\* secret store, GitLab and the completion service is ever contacted.
C16_IgnoredContactsNothing ==
    (NotMergeRequest(event) \/ NotOpened(event)) =>
        /\ \A s \in Services : ~Started(s)
        /\ store_result.kind = "none"
        /\ gl = None /\ llm = None

\* a closed merge request, answered without any external call
C16_Witness ==
    /\ Returned
    /\ ~NotMergeRequest(event)
    /\ event.object_attributes.state = "closed"
    /\ trace = << <<"classify", "ignored">> >>

\* the credential stage raised something that is neither ClientError nor
\* JSONDecodeError: another exception of get_secret_value, a response with
\* neither payload, an invalid base64 blob or non-ASCII bytes
UnexpectedCredentialFailure ==
    \/ store_result.kind \in {"BotoCoreError", "Neither"}
    \/ /\ store_result.kind = "SecretBinary"
       /\ ~store_result.b64ok \/ ~store_result.ascii

\* C17: any other exception of the credential stage ends the invocation
\* with status 500, error "Internal Server Error", message "An unexpected
\* error occurred", and no later stage runs.
C17_UnexpectedFailure ==
    UnexpectedCredentialFailure =>
        /\ Returned
        /\ responses[1].statusCode = 500
        /\ responses[1].body.members.error = "Internal Server Error"
        /\ responses[1].body.members.message = "An unexpected error occurred"
        /\ trace = << <<"classify", "ok">>, <<"secret", "start">>, <<"secret", "fail">> >>
        /\ gl = None /\ llm = None

\* a binary payload that is not valid base64
C17_Witness ==
    /\ Returned
    /\ store_result.kind = "SecretBinary"
    /\ ~store_result.b64ok
    /\ responses[1].body.members.message = "An unexpected error occurred"

\* the stage and kind of the failure the invocation met
FailureKind ==
    IF Happened(<<"diff", "fail">>) THEN "diff"
    ELSE IF store_result.kind = "ClientError" THEN "secret_store"
    ELSE IF /\ store_result.kind = "SecretString"
            /\ store_result.text \in {TextNotJson, TextTruncated}
         THEN "secret_parse"
    ELSE "secret_unexpected"

\* the fixed status, error and message of each failure kind
FixedFailure(kind) ==
    CASE kind = "secret_store" ->
            <<500, "Internal Server Error", "Failed to retrieve secret">>
      [] kind = "secret_parse" ->
            <<500, "Internal Server Error", "Failed to parse secret">>
      [] kind = "secret_unexpected" ->
            <<500, "Internal Server Error", "An unexpected error occurred">>
      [] kind = "diff" ->
            <<502, "Failed to contact GitLab API", "Failed to retrieve merge request diff">>

\* C18: a failure response is decided by the stage and kind of the failure
\* alone: status, headers, error and message are the fixed ones of that
\* kind, whatever text the exception carried, so two invocations that
\* differ only in that text return the same response up to the timestamp.
C18_NoExceptionText ==
    (Returned /\ SomeCallFailed) =>
        LET fixed == FixedFailure(FailureKind)
            m == responses[1].body.members
        IN  /\ responses[1].statusCode = fixed[1]
            /\ responses[1].headers = [ContentType |-> "application/json"]
            /\ DOMAIN m = {"error", "message", "timestamp"}
            /\ m.error = fixed[2]
            /\ m.message = fixed[3]
            /\ m.message # exc_detail /\ m.error # exc_detail

\* a diff fetch that failed with a 404 text, answered with the fixed message
C18_Witness ==
    /\ Returned
    /\ exc_detail = "GitlabHttpError: 404"
    /\ responses[1].body.members.message = "Failed to retrieve merge request diff"

IsSuccessResponse(r) ==
    /\ r.statusCode = 200
    /\ r.body.members.message = "Event received successfully"

\* C19: a success response is returned only when the event is an opened
\* merge request and the secret store call, the diff fetch and the
\* completion call each ran exactly once and succeeded.
C19_SuccessOnlyAfterAll ==
    \A i \in DOMAIN responses :
        IsSuccessResponse(responses[i]) =>
            /\ ~NotMergeRequest(event) /\ ~NotOpened(event)
            /\ \A s \in Services :
                  /\ Count(<<s, "start">>) = 1
                  /\ Count(<<s, "ok">>) = 1
                  /\ Count(<<s, "fail">>) = 0

C19_Witness ==
    /\ Returned
    /\ IsSuccessResponse(responses[1])
    /\ Len(trace) = 11
    /\ \A s \in Services : Count(<<s, "ok">>) = 1

====
